---- MODULE Spec2Model ----
(***************************************************************************)
(* The emissions ledger of YourCarbonFootprint (data_handler.py): the      *)
(* in-memory DataFrame emissions_data, its JSON copy in EMISSIONS_FILE,    *)
(* and the operations add_emission_entry, import_csv,                      *)
(* save_emissions_data and get_emissions_summary.                          *)
(*                                                                         *)
(* A DataFrame is a set of column names plus a sequence of rows; a row is  *)
(* a function from the column names to the cells.  A Timestamp is the      *)
(* integer YYYYMMDD, a date string is a string, so parsing and formatting  *)
(* are real conversions.  Python arguments are tagged values (None, str,   *)
(* num) so that truthiness and float() are computed as Python does.        *)
(***************************************************************************)
EXTENDS Integers, Sequences, FiniteSets, TLC

VARIABLES
    emissions_data,   \* rows of self.emissions_data, in index order
    columns,          \* column names of self.emissions_data
    file,             \* content of EMISSIONS_FILE
    call,             \* the last call and its arguments
    ret,              \* what the last call returned
    io,               \* what the write of the last call did: none, ok, or a failure
    prev_data,        \* self.emissions_data when the last call started
    prev_columns,     \* its columns when the last call started
    prev_file,        \* EMISSIONS_FILE when the last call started
    accepted,         \* the arguments and file rows of the calls that succeeded, in call order
    pc,               \* "ready" for a call, "returned" from the last one; "start" before
                      \* DataHandler() and "crashed" when it raised
    EMISSION_FACTORS, \* the catalog of emission_factors.py: categories in dict order
    threads           \* per thread calling into the handler: where its call is, and its locals

vars == <<emissions_data, columns, file, call, ret, io,
          prev_data, prev_columns, prev_file, accepted, pc, EMISSION_FACTORS,
          threads>>

---------------------------------------------------------------------------
(* Bounds *)

MaxLedger == 2
MaxCsvRows == 2

---------------------------------------------------------------------------
(* Python values *)

PyNone == [t |-> "None"]
PyStr(s) == [t |-> "str", s |-> s]
PyNum(n) == [t |-> "num", n |-> n]

\* bool(v)
Truthy(v) ==
    CASE v.t = "None" -> FALSE
      [] v.t = "str" -> v.s # ""
      [] v.t = "num" -> v.n # 0

\* float(v) succeeds on a number (and on no string of the inputs used here)
FloatOk(v) == v.t = "num"
Float(v) == v.n

\* what a cell holds once the value is stored in the frame
Cell(v) == IF v.t = "num" THEN v.n ELSE v.s

\* the missing value of a text cell
NaN == "NaN"

---------------------------------------------------------------------------
(* Dates *)

\* the date strings pandas parses, with the Timestamp each gives
TimestampOf ==
    ("2025-01-15" :> 20250115) @@ ("2025-02-20" :> 20250220)
        @@ ("2025/02/20" :> 20250220)

DateOk(s) == s \in DOMAIN TimestampOf

\* pandas' missing Timestamp
NaT == 0

\* the dates written day first, '%d-%m-%Y'
StrftimeDmy(ts) ==
    CASE ts = 20250115 -> "15-01-2025"
      [] ts = 20250220 -> "20-02-2025"
      [] ts = NaT -> NaN

\* Timestamp.strftime('%Y-%m-%d')
StrftimeYmd(ts) ==
    CASE ts = 20250115 -> "2025-01-15"
      [] ts = 20250220 -> "2025-02-20"
      [] ts = NaT -> NaN

\* Timestamp.strftime('%Y-%m')
StrftimeYm(ts) ==
    CASE ts \div 100 = 202501 -> "2025-01"
      [] ts \div 100 = 202502 -> "2025-02"
      [] ts = NaT -> NaN

---------------------------------------------------------------------------
(* Frames *)

DEFAULT_COLUMNS ==
    {"date", "scope", "category", "activity", "quantity", "unit",
     "emission_factor", "emissions_kgCO2e", "notes"}

REQUIRED == <<"date", "scope", "category", "activity", "quantity", "unit",
              "emission_factor">>

Range(s) == {s[i] : i \in DOMAIN s}

\* a row given the columns cols: absent cells are NaN
Reindex(row, cols) ==
    [c \in cols |-> IF c \in DOMAIN row THEN row[c] ELSE NaN]

ReindexAll(rows, cols) == [i \in DOMAIN rows |-> Reindex(rows[i], cols)]

\* the new rows put in front of the old ones
ConcatPrepending(rowsA, colsA, rowsB, colsB) ==
    ReindexAll(rowsB, colsA \cup colsB) \o ReindexAll(rowsA, colsA \cup colsB)

\* pd.concat([a, b], ignore_index=True): the rows of a, then the rows of b,
\* over the union of the columns
Concat(rowsA, colsA, rowsB, colsB) ==
    ReindexAll(rowsA, colsA \cup colsB) \o ReindexAll(rowsB, colsA \cup colsB)

---------------------------------------------------------------------------
(* EMISSIONS_FILE *)

AbsentFile == [kind |-> "absent"]
CorruptFile == [kind |-> "corrupt"]
JsonFile(records) == [kind |-> "json", records |-> records]

\* what open()/json.dump can do: succeed, fail before the file is touched
\* (open raises), or fail after open(..., 'w') truncated it (the dump raises)
SaveOutcomes == {"ok", "open_failed", "write_failed"}

\* df['date'].dt.strftime('%Y-%m-%d'), then df.to_dict('records')
ToDictRecords(rows) ==
    [i \in DOMAIN rows |-> [rows[i] EXCEPT !["date"] = StrftimeYmd(@)]]

\* a save that writes the newest row alone
SaveLatestRowOnly(rows, f, outcome) ==
    CASE outcome = "ok" -> JsonFile(ToDictRecords(SubSeq(rows, Len(rows), Len(rows))))
      [] outcome = "open_failed" -> f
      [] outcome = "write_failed" -> CorruptFile

\* save_emissions_data: the file after the call; every exception is
\* swallowed (logged), so the caller learns nothing of the outcome
SaveEmissionsData(rows, f, outcome) ==
    CASE outcome = "ok" -> JsonFile(ToDictRecords(rows))
      [] outcome = "open_failed" -> f
      [] outcome = "write_failed" -> CorruptFile

---------------------------------------------------------------------------
(* add_emission_entry *)

AddDates == {"2025/02/20", "not-a-date"}
AddScopes == {PyStr(""), PyStr("Scope 1")}
AddCategories == {PyNone, PyStr("Stationary Combustion")}
AddActivities == {PyStr(""), PyStr("Diesel")}
AddQuantities == {PyNone, PyNum(0), PyNum(0 - 5), PyNum(5)}
AddFactors == {PyNone, PyNum(2)}

AddArgs ==
    [date : AddDates, scope : AddScopes, category : AddCategories,
     activity : AddActivities, quantity : AddQuantities, unit : {"liter"},
     emission_factor : AddFactors, notes : {""}]

\* the check with activity left out of the list
MandatoryPresentButActivity(a) ==
    /\ Truthy(a.scope)
    /\ Truthy(a.category)
    /\ Truthy(a.quantity)
    /\ Truthy(a.emission_factor)

\* all([scope, category, activity, quantity, emission_factor])
MandatoryPresent(a) ==
    /\ Truthy(a.scope)
    /\ Truthy(a.category)
    /\ Truthy(a.activity)
    /\ Truthy(a.quantity)
    /\ Truthy(a.emission_factor)

\* the statements of the try block that can raise before the append
AddRaises(a) ==
    \/ ~MandatoryPresent(a)
    \/ ~FloatOk(a.quantity)
    \/ ~FloatOk(a.emission_factor)
    \/ ~DateOk(a.date)

\* float(quantity) * float(emission_factor)
EntryEmissions(a) == Float(a.quantity) * Float(a.emission_factor)

\* the one-row frame new_entry
NewEntry(a) ==
    [date |-> TimestampOf[a.date],
     scope |-> Cell(a.scope),
     category |-> Cell(a.category),
     activity |-> Cell(a.activity),
     quantity |-> Float(a.quantity),
     unit |-> a.unit,
     emission_factor |-> Float(a.emission_factor),
     emissions_kgCO2e |-> EntryEmissions(a),
     notes |-> a.notes]

\* the return value of add_emission_entry: True unless the try block raised
AddReturn(a, outcome) == ~AddRaises(a)

add_emission_entry(a, outcome) ==
    /\ pc = "ready"
    /\ pc' = "returned"
    /\ call' = [op |-> "add", args |-> a]
    /\ prev_data' = emissions_data
    /\ prev_columns' = columns
    /\ prev_file' = file
    /\ io' = outcome
    /\ UNCHANGED <<EMISSION_FACTORS, threads>>
    /\ ret' = [ok |-> AddReturn(a, outcome)]
    /\ IF AddRaises(a)
       THEN UNCHANGED <<emissions_data, columns, file, accepted>>
       ELSE /\ emissions_data' =
                  Concat(emissions_data, columns, <<NewEntry(a)>>, DEFAULT_COLUMNS)
            /\ columns' = columns \cup DEFAULT_COLUMNS
            /\ file' = SaveEmissionsData(emissions_data', file, outcome)
            /\ accepted' = Append(accepted, [src |-> "add", raw |-> a])

AddEntry ==
    \E a \in AddArgs :
        \E outcome \in IF AddRaises(a) THEN {"none"} ELSE SaveOutcomes :
            /\ ~AddRaises(a) => Len(emissions_data) < MaxLedger
            /\ add_emission_entry(a, outcome)

---------------------------------------------------------------------------
(* import_csv *)

\* the frame pd.read_csv returns: text cells are strings, the cells of a
\* numeric column are numbers, and a numeric column holding text is text
CsvColumnSets ==
    { Range(REQUIRED) \cup {"emissions_kgCO2e"},
      Range(REQUIRED) \cup {"notes"},
      (Range(REQUIRED) \ {"date", "quantity"}) \cup {"emissions_kgCO2e"} }

GoodRow1 ==
    [date |-> "2025-01-15", scope |-> "Scope 2", category |-> "Electricity",
     activity |-> "India Grid", quantity |-> PyNum(3), unit |-> "kWh",
     emission_factor |-> PyNum(2), emissions_kgCO2e |-> PyNum(999),
     notes |-> "bill"]

GoodRow2 == [GoodRow1 EXCEPT !.quantity = PyNum(4), !.emissions_kgCO2e = PyNum(8)]
BadDateRow == [GoodRow2 EXCEPT !.date = "not-a-date"]
TextQuantityRow == [GoodRow1 EXCEPT !.quantity = PyStr("abc")]

CsvRows == {GoodRow1, GoodRow2, BadDateRow, TextQuantityRow}

Restrict(row, cols) == [c \in cols |-> row[c]]

CsvBatches == UNION {[1..n -> CsvRows] : n \in 1..MaxCsvRows}

CsvFrames ==
    { [cols |-> cs, rows |-> [i \in DOMAIN rs |-> Restrict(rs[i], cs)]] :
        cs \in CsvColumnSets, rs \in CsvBatches }

\* only the first missing column
FirstMissingColumn(csv) ==
    LET m == SelectSeq(REQUIRED, LAMBDA c : c \notin csv.cols)
    IN  IF m = <<>> THEN <<>> ELSE <<m[1]>>

\* [c for c in required if c not in df.columns]
MissingColumns(csv) == SelectSeq(REQUIRED, LAMBDA c : c \notin csv.cols)

\* one cell of pd.to_datetime(df['date'])
ToDatetime(s) == IF DateOk(s) THEN TimestampOf[s] ELSE NaT

\* only the first row's date is looked at
FirstDateRaises(csv) == ~DateOk(csv.rows[1].date)

\* pd.to_datetime(df['date']) raises when a cell does not parse
ToDatetimeRaises(csv) == \E i \in DOMAIN csv.rows : ~DateOk(csv.rows[i].date)

\* Series.astype(float) raises when a cell is text that is no number
AsFloatRaises(csv, c) == \E i \in DOMAIN csv.rows : ~FloatOk(csv.rows[i][c])

\* the statements of the try block that can raise before the concat
\* (reached only with every required column present)
ImportRaises(csv) ==
    \/ ToDatetimeRaises(csv)
    \/ AsFloatRaises(csv, "quantity")
    \/ AsFloatRaises(csv, "emission_factor")

\* df['quantity'].astype(float) * df['emission_factor'].astype(float), one row
RowEmissions(row) == Float(row.quantity) * Float(row.emission_factor)

\* the columns of df when it is concatenated
ImportedColumns(csv) == csv.cols \cup {"emissions_kgCO2e", "notes"}

\* the row with the file's own emissions_kgCO2e kept when it has one
ImportedRowKeepingSupplied(csv, row) ==
    [c \in ImportedColumns(csv) |->
        CASE c = "date" -> ToDatetime(row.date)
          [] c = "emissions_kgCO2e" ->
                IF c \in csv.cols THEN Cell(row[c]) ELSE RowEmissions(row)
          [] c = "notes" -> IF "notes" \in csv.cols THEN row.notes ELSE ""
          [] c \in {"quantity", "emission_factor"} -> Cell(row[c])
          [] OTHER -> row[c]]

\* one row of df when it is concatenated: date parsed, emissions_kgCO2e
\* assigned, notes set to "" when the file had no such column
ImportedRow(csv, row) ==
    [c \in ImportedColumns(csv) |->
        CASE c = "date" -> ToDatetime(row.date)
          [] c = "emissions_kgCO2e" -> RowEmissions(row)
          [] c = "notes" -> IF "notes" \in csv.cols THEN row.notes ELSE ""
          [] c \in {"quantity", "emission_factor"} -> Cell(row[c])
          [] OTHER -> row[c]]

ImportedRows(csv) == [i \in DOMAIN csv.rows |-> ImportedRow(csv, csv.rows[i])]

ImportRejected(csv) ==
    IF MissingColumns(csv) # <<>> THEN TRUE ELSE ImportRaises(csv)

\* the tuple import_csv returns
ImportReturn(csv, outcome) ==
    IF MissingColumns(csv) # <<>>
    THEN [ok |-> FALSE,
          msg |-> [kind |-> "missing_columns", names |-> MissingColumns(csv)]]
    ELSE IF ImportRaises(csv)
    THEN [ok |-> FALSE, msg |-> [kind |-> "exception"]]
    ELSE [ok |-> TRUE, msg |-> [kind |-> "imported", n |-> Len(csv.rows)]]

import_csv(csv, outcome) ==
    /\ pc = "ready"
    /\ pc' = "returned"
    /\ call' = [op |-> "import", csv |-> csv]
    /\ prev_data' = emissions_data
    /\ prev_columns' = columns
    /\ prev_file' = file
    /\ io' = outcome
    /\ UNCHANGED <<EMISSION_FACTORS, threads>>
    /\ ret' = ImportReturn(csv, outcome)
    /\ IF ImportRejected(csv)
       THEN UNCHANGED <<emissions_data, columns, file, accepted>>
       ELSE /\ emissions_data' =
                  Concat(emissions_data, columns, ImportedRows(csv), ImportedColumns(csv))
            /\ columns' = columns \cup ImportedColumns(csv)
            /\ file' = SaveEmissionsData(emissions_data', file, outcome)
            /\ accepted' =
                  accepted \o [i \in DOMAIN csv.rows |-> [src |-> "csv", raw |-> csv.rows[i]]]

ImportCsv ==
    \E csv \in CsvFrames :
        \E outcome \in IF ImportRejected(csv) THEN {"none"} ELSE SaveOutcomes :
            /\ ~ImportRejected(csv) => Len(emissions_data) + Len(csv.rows) <= MaxLedger
            /\ import_csv(csv, outcome)

---------------------------------------------------------------------------
(* get_emissions_summary *)

RECURSIVE SumEmissions(_)
SumEmissions(rows) ==
    IF rows = <<>> THEN 0
    ELSE rows[1].emissions_kgCO2e + SumEmissions(Tail(rows))

\* groupby(key) keeps the rows whose key is not NaN
Keys(rows, key) == {rows[i][key] : i \in DOMAIN rows} \ {NaN}

GroupSum(rows, key, k) == SumEmissions(SelectSeq(rows, LAMBDA r : r[key] = k))

\* groupby(key)['emissions_kgCO2e'].sum().to_dict()
Breakdown(rows, key) == [k \in Keys(rows, key) |-> GroupSum(rows, key, k)]

\* the assignment of 'month' done on the frame of the rows that have a scope
WithMonthOfScopedRows(rows) ==
    LET kept == SelectSeq(rows, LAMBDA r : r.scope # NaN)
    IN  [i \in DOMAIN kept |->
            [c \in DOMAIN kept[i] \cup {"month"} |->
                IF c = "month" THEN StrftimeYm(kept[i].date) ELSE kept[i][c]]]

\* the 'month' column the call assigns to self.emissions_data
WithMonth(rows) ==
    [i \in DOMAIN rows |->
        [c \in DOMAIN rows[i] \cup {"month"} |->
            IF c = "month" THEN StrftimeYm(rows[i].date) ELSE rows[i][c]]]

\* groupby(['month', 'scope']).sum().unstack().fillna(0).to_dict():
\* scope -> month -> sum, 0 where the pair has no row
TimeSeries(rows) ==
    [s \in Keys(rows, "scope") |->
        [m \in {rows[i].month : i \in {j \in DOMAIN rows : rows[j].scope # NaN}} |->
            SumEmissions(SelectSeq(rows, LAMBDA r : r.scope = s /\ r.month = m))]]

\* the summary without the early return for an empty frame: .dt on the
\* object-typed date column of the empty frame raises
SummaryReturnNoEmptyCheck(rows) ==
    IF rows = <<>>
    THEN [raised |-> "AttributeError"]
    ELSE [total_emissions |-> SumEmissions(rows),
          scope_breakdown |-> Breakdown(rows, "scope"),
          category_breakdown |-> Breakdown(rows, "category"),
          time_series |-> TimeSeries(WithMonth(rows))]

SummaryReturn(rows) ==
    IF rows = <<>>
    THEN [total_emissions |-> 0, scope_breakdown |-> <<>>,
          category_breakdown |-> <<>>, time_series |-> <<>>]
    ELSE [total_emissions |-> SumEmissions(rows),
          scope_breakdown |-> Breakdown(rows, "scope"),
          category_breakdown |-> Breakdown(rows, "category"),
          time_series |-> TimeSeries(WithMonth(rows))]

get_emissions_summary ==
    /\ pc = "ready"
    /\ pc' = "returned"
    /\ call' = [op |-> "summary"]
    /\ prev_data' = emissions_data
    /\ prev_columns' = columns
    /\ prev_file' = file
    /\ io' = "none"
    /\ UNCHANGED <<EMISSION_FACTORS, threads>>
    /\ ret' = SummaryReturn(emissions_data)
    /\ IF emissions_data = <<>>
       THEN UNCHANGED <<emissions_data, columns>>
       ELSE /\ emissions_data' = WithMonth(emissions_data)
            /\ columns' = columns \cup {"month"}
    /\ UNCHANGED <<file, accepted>>

\* get_emissions_summary called again as soon as the last call returned
get_emissions_summary_next ==
    /\ pc = "returned"
    /\ call.op \in {"add", "import", "summary"}
    /\ "after" \notin DOMAIN call
    /\ pc' = "returned"
    /\ call' = [op |-> "summary", after |-> call, first |-> ret]
    /\ prev_data' = emissions_data
    /\ prev_columns' = columns
    /\ prev_file' = file
    /\ io' = "none"
    /\ UNCHANGED <<EMISSION_FACTORS, threads>>
    /\ ret' = SummaryReturn(emissions_data)
    /\ IF emissions_data = <<>>
       THEN UNCHANGED <<emissions_data, columns>>
       ELSE /\ emissions_data' = WithMonth(emissions_data)
            /\ columns' = columns \cup {"month"}
    /\ UNCHANGED <<file, accepted>>

---------------------------------------------------------------------------
(* get_filtered_data and export_csv *)

\* if start_date and end_date: data.loc[(date >= start) & (date <= end)]
DateMask(rows, start_date, end_date) ==
    IF Truthy(start_date) /\ Truthy(end_date)
    THEN SelectSeq(rows, LAMBDA r :
            /\ r.date >= TimestampOf[start_date.s]
            /\ r.date <= TimestampOf[end_date.s])
    ELSE rows

\* the scope filter keeping the rows of the other scopes
ScopeMaskInverted(rows, scope) ==
    IF Truthy(scope) THEN SelectSeq(rows, LAMBDA r : r.scope # scope.s) ELSE rows

\* if scope: data[data['scope'] == scope]
ScopeMask(rows, scope) ==
    IF Truthy(scope) THEN SelectSeq(rows, LAMBDA r : r.scope = scope.s) ELSE rows

\* if category: data[data['category'] == category]
CategoryMask(rows, category) ==
    IF Truthy(category)
    THEN SelectSeq(rows, LAMBDA r : r.category = category.s)
    ELSE rows

\* the frame get_filtered_data returns: the masks applied to
\* self.emissions_data.copy(), so the ledger's own frame is never the one
\* returned or written to
FilteredData(rows, start_date, end_date, scope, category) ==
    CategoryMask(ScopeMask(DateMask(rows, start_date, end_date), scope), category)

\* data['date'] = data['date'].dt.strftime('%Y-%m-%d')
ExportedRows(rows) ==
    [i \in DOMAIN rows |-> [rows[i] EXCEPT !["date"] = StrftimeYmd(@)]]

QueryDates == {PyNone, PyStr("2025-01-15"), PyStr("2025-02-20")}
QueryScopes == {PyNone, PyStr(""), PyStr("Scope 1"), PyStr("Scope 2")}
QueryCategories == {PyNone, PyStr("Electricity")}

get_filtered_data(start_date, end_date, scope, category) ==
    /\ pc = "ready"
    /\ pc' = "returned"
    /\ call' = [op |-> "filter", start_date |-> start_date, end_date |-> end_date,
                scope |-> scope, category |-> category]
    /\ prev_data' = emissions_data
    /\ prev_columns' = columns
    /\ prev_file' = file
    /\ io' = "none"
    /\ UNCHANGED <<EMISSION_FACTORS, threads>>
    /\ ret' = [data |-> FilteredData(emissions_data, start_date, end_date,
                                     scope, category)]
    /\ UNCHANGED <<emissions_data, columns, file, accepted>>

\* export_csv(None, start_date, end_date): the CSV text of the filtered rows
export_csv(start_date, end_date) ==
    /\ pc = "ready"
    /\ pc' = "returned"
    /\ call' = [op |-> "export", start_date |-> start_date, end_date |-> end_date]
    /\ prev_data' = emissions_data
    /\ prev_columns' = columns
    /\ prev_file' = file
    /\ io' = "none"
    /\ UNCHANGED <<EMISSION_FACTORS, threads>>
    /\ ret' = [csv |-> ExportedRows(
                  FilteredData(emissions_data, start_date, end_date, PyNone, PyNone))]
    /\ UNCHANGED <<emissions_data, columns, file, accepted>>

FilterCall ==
    \E start_date \in QueryDates, end_date \in QueryDates :
        \E scope \in QueryScopes, category \in QueryCategories :
            get_filtered_data(start_date, end_date, scope, category)

ExportCall ==
    \E start_date \in QueryDates, end_date \in QueryDates :
        export_csv(start_date, end_date)

\* rows of a CSV file with an empty scope cell and an empty category cell
NoScopeRow == [GoodRow2 EXCEPT !.scope = NaN]
NoCategoryRow == [GoodRow1 EXCEPT !.category = NaN, !.quantity = PyNum(5)]

QueryCsvRows == {GoodRow1, NoScopeRow, NoCategoryRow, BadDateRow}

QueryCsvFrames ==
    { [cols |-> cs, rows |-> [i \in DOMAIN rs |-> Restrict(rs[i], cs)]] :
        cs \in {Range(REQUIRED) \cup {"notes"}},
        rs \in UNION {[1..n -> QueryCsvRows] : n \in 1..MaxCsvRows} }

QueryAddArgs ==
    { a \in AddArgs :
        /\ a.scope = PyStr("Scope 1")
        /\ a.category = PyStr("Stationary Combustion")
        /\ a.activity = PyStr("Diesel")
        /\ a.quantity \in {PyNone, PyNum(5)}
        /\ a.emission_factor = PyNum(2) }

QueryAdd ==
    \E a \in QueryAddArgs :
        /\ ~AddRaises(a) => Len(emissions_data) < MaxLedger
        /\ add_emission_entry(a, IF AddRaises(a) THEN "none" ELSE "ok")

QueryImport ==
    \E csv \in QueryCsvFrames :
        /\ ~ImportRejected(csv) => Len(emissions_data) + Len(csv.rows) <= MaxLedger
        /\ import_csv(csv, IF ImportRejected(csv) THEN "none" ELSE "ok")

---------------------------------------------------------------------------
(* emission_factors.py: the catalog EMISSION_FACTORS and its functions.    *)
(* A factor is held in units of 0.00001 (the literal has at most five      *)
(* decimals), an amount is a whole number, and a computed emission is held *)
(* in units of 0.0001, the four decimals round(total, 4) keeps.            *)

Ef(activity, factor, unit) == [activity |-> activity, factor |-> factor, unit |-> unit]

\* the literal of lines 11-75: categories and, within each, activities in
\* the order written (the order a dict keeps); factors in units of 0.00001
STATIC_EMISSION_FACTORS ==
    <<
      [category |-> "Stationary Combustion",
       activities |-> <<
           Ef("Natural Gas", 18316, "kWh"),
           Ef("Diesel", 268787, "liter"),
           Ef("LPG", 155537, "kg"),
           Ef("Coal", 242287, "kg") >>],
      [category |-> "Mobile Combustion",
       activities |-> <<
           Ef("Petrol/Gasoline", 231495, "liter"),
           Ef("Diesel", 270553, "liter"),
           Ef("LPG", 155537, "liter"),
           Ef("CNG", 253721, "kg") >>],
      [category |-> "Refrigerants",
       activities |-> <<
           Ef("R-410A", 208800000, "kg"),
           Ef("R-134a", 143000000, "kg"),
           Ef("R-404A", 392200000, "kg"),
           Ef("R-407C", 177400000, "kg") >>],
      [category |-> "Electricity",
       activities |-> <<
           Ef("India Grid", 82000, "kWh"),
           Ef("Indonesia Grid", 87000, "kWh"),
           Ef("Japan Grid", 47000, "kWh"),
           Ef("Solar Power", 4100, "kWh"),
           Ef("Wind Power", 1100, "kWh") >>],
      [category |-> "Steam",
       activities |-> <<
           Ef("Purchased Steam", 19000, "kg") >>],
      [category |-> "District Cooling",
       activities |-> <<
           Ef("District Cooling", 12000, "kWh") >>],
      [category |-> "Business Travel",
       activities |-> <<
           Ef("Short-haul Flight", 15298, "passenger-km"),
           Ef("Long-haul Flight", 19085, "passenger-km"),
           Ef("Train", 3694, "passenger-km"),
           Ef("Bus", 10471, "passenger-km"),
           Ef("Taxi", 14549, "km") >>],
      [category |-> "Employee Commuting",
       activities |-> <<
           Ef("Car (Petrol/Gasoline)", 17336, "km"),
           Ef("Car (Diesel)", 16844, "km"),
           Ef("Motorcycle", 11501, "km"),
           Ef("Bus", 10471, "passenger-km"),
           Ef("Train/Metro", 3694, "passenger-km") >>],
      [category |-> "Waste",
       activities |-> <<
           Ef("Landfill", 45727, "kg"),
           Ef("Recycling", 1042, "kg"),
           Ef("Composting", 1042, "kg"),
           Ef("Incineration", 1613, "kg") >>],
      [category |-> "Water",
       activities |-> <<
           Ef("Water Supply", 34400, "cubic meter"),
           Ef("Water Treatment", 70800, "cubic meter") >>],
      [category |-> "Purchased Goods & Services",
       activities |-> <<
           Ef("Paper", 91900, "kg"),
           Ef("Plastic", 314000, "kg"),
           Ef("Glass", 85000, "kg"),
           Ef("Metal", 137000, "kg"),
           Ef("Food", 359000, "kg") >>]
    >>

\* the literal of lines 77-83; no function assigns to it
SCOPE_CATEGORIES ==
    ("Scope 1" :> <<"Stationary Combustion", "Mobile Combustion", "Refrigerants">>)
    @@ ("Scope 2" :> <<"Electricity", "Steam", "District Cooling">>)
    @@ ("Scope 3" :> <<"Business Travel", "Employee Commuting", "Waste", "Water",
                       "Purchased Goods & Services">>)

\* get_categories: SCOPE_CATEGORIES.get(scope, [])
get_categories(scope) ==
    IF scope \in DOMAIN SCOPE_CATEGORIES THEN SCOPE_CATEGORIES[scope] ELSE <<>>

\* the index of the category in the catalog, 0 when it has none
CategoryIndex(catalog, category) ==
    IF \E i \in DOMAIN catalog : catalog[i].category = category
    THEN CHOOSE i \in DOMAIN catalog : catalog[i].category = category
    ELSE 0

\* EMISSION_FACTORS.get(category, {})
ActivitiesOf(catalog, category) ==
    IF CategoryIndex(catalog, category) = 0 THEN <<>>
    ELSE catalog[CategoryIndex(catalog, category)].activities

\* the index of the activity in a category's dict, 0 when it has none
ActivityIndex(acts, activity) ==
    IF \E j \in DOMAIN acts : acts[j].activity = activity
    THEN CHOOSE j \in DOMAIN acts : acts[j].activity = activity
    ELSE 0

\* get_emission_factor: the entry, or None
get_emission_factor(catalog, category, activity) ==
    LET acts == ActivitiesOf(catalog, category)
        j == ActivityIndex(acts, activity)
    IN  IF j = 0 THEN PyNone ELSE acts[j]

\* the unit taken from the argument or else the placeholder
UnitOrPlaceholder(catalog, category, activity, unit) ==
    IF Truthy(unit) THEN unit.s ELSE "unit"

\* unit or EMISSION_FACTORS[category].get(activity, {}).get("unit", "unit")
UpdatedUnit(catalog, category, activity, unit) ==
    IF Truthy(unit) THEN unit.s
    ELSE IF get_emission_factor(catalog, category, activity) = PyNone THEN "unit"
    ELSE get_emission_factor(catalog, category, activity).unit

\* d[key] = value on a dict: an existing key keeps its place, a new key
\* goes to the end
SetActivity(acts, entry) ==
    IF ActivityIndex(acts, entry.activity) = 0 THEN Append(acts, entry)
    ELSE [acts EXCEPT ![ActivityIndex(acts, entry.activity)] = entry]

\* the catalog after update_emission_factor(category, activity, new_factor, unit)
UpdateEmissionFactor(catalog, category, activity, new_factor, unit) ==
    LET withCategory ==
            IF CategoryIndex(catalog, category) = 0
            THEN Append(catalog, [category |-> category, activities |-> <<>>])
            ELSE catalog
        entry == Ef(activity, new_factor,
                    UpdatedUnit(catalog, category, activity, unit))
        i == CategoryIndex(withCategory, category)
    IN  [withCategory EXCEPT ![i].activities = SetActivity(@, entry)]

\* the catalog once the module is imported: the literal, then line 168,
\* update_emission_factor("Electricity", "Pakistan Grid", new_factor=0.79, unit="kWh")
ImportedCatalog ==
    UpdateEmissionFactor(STATIC_EMISSION_FACTORS, "Electricity", "Pakistan Grid",
                         79000, PyStr("kWh"))

\* the digits past the fourth decimal cut off
Truncate4(p) == p \div 10

\* round(total, 4) of a total given in units of 0.00001, in units of 0.0001:
\* to the nearest, a total midway between two to the even one (the amounts
\* used here give no such total for any factor of the catalog)
Round4(p) ==
    IF p % 10 > 5 \/ (p % 10 = 5 /\ (p \div 10) % 2 = 1)
    THEN (p \div 10) + 1
    ELSE p \div 10

\* calculate_emission: the value returned, or the ValueError raised
CalculateEmission(catalog, category, activity, amount) ==
    LET ef == get_emission_factor(catalog, category, activity)
    IN  IF ef # PyNone
        THEN [raised |-> "none", value |-> Round4(ef.factor * amount)]
        ELSE [raised |-> "ValueError"]

\* usage_dict in the order its items are visited, one (category, activity,
\* amount) for each inner item
Use(category, activity, amount) ==
    [category |-> category, activity |-> activity, amount |-> amount]

\* the aggregation that lets the ValueError of an unknown pair through
TotalAbortingOnUnknown(catalog, scope, usage) ==
    LET RECURSIVE Total(_)
        Total(u) ==
            IF u = <<>> THEN 0
            ELSE CalculateEmission(catalog, u[1].category, u[1].activity,
                                   u[1].amount).value + Total(Tail(u))
    IN  IF \E k \in DOMAIN usage :
              CalculateEmission(catalog, usage[k].category, usage[k].activity,
                                usage[k].amount).raised # "none"
        THEN [raised |-> "ValueError"]
        ELSE [raised |-> "none", value |-> Total(usage)]

\* total_emission_by_scope(scope, usage_dict): scope is not used; a pair
\* for which calculate_emission raises ValueError is passed over
TotalEmissionByScope(catalog, scope, usage) ==
    LET RECURSIVE Total(_)
        Total(u) ==
            IF u = <<>> THEN 0
            ELSE LET e == CalculateEmission(catalog, u[1].category,
                                            u[1].activity, u[1].amount)
                 IN  (IF e.raised = "none" THEN e.value ELSE 0) + Total(Tail(u))
    IN  [raised |-> "none", value |-> Total(usage)]

\* str.lower() on the letters the names and keywords are written in
LowerOf ==
    ("A" :> "a") @@ ("B" :> "b") @@ ("C" :> "c") @@ ("D" :> "d") @@ ("E" :> "e")
    @@ ("F" :> "f") @@ ("G" :> "g") @@ ("H" :> "h") @@ ("I" :> "i") @@ ("J" :> "j")
    @@ ("K" :> "k") @@ ("L" :> "l") @@ ("M" :> "m") @@ ("N" :> "n") @@ ("O" :> "o")
    @@ ("P" :> "p") @@ ("Q" :> "q") @@ ("R" :> "r") @@ ("S" :> "s") @@ ("T" :> "t")
    @@ ("U" :> "u") @@ ("V" :> "v") @@ ("W" :> "w") @@ ("X" :> "x") @@ ("Y" :> "y")
    @@ ("Z" :> "z")

RECURSIVE Lower(_)
Lower(s) ==
    IF Len(s) = 0 THEN ""
    ELSE (IF SubSeq(s, 1, 1) \in DOMAIN LowerOf
          THEN LowerOf[SubSeq(s, 1, 1)]
          ELSE SubSeq(s, 1, 1)) \o Lower(SubSeq(s, 2, Len(s)))

\* the test with the keyword looked for at the start of the name only
StartsWith(keyword, s) ==
    Len(keyword) <= Len(s) /\ SubSeq(s, 1, Len(keyword)) = keyword

\* keyword in s
Contains(keyword, s) ==
    \E i \in 1..(Len(s) - Len(keyword) + 1) :
        SubSeq(s, i, i + Len(keyword) - 1) = keyword

\* the (cat, act, factor, unit) tuples of a sequence of entries of cat
Tuples(category, acts) ==
    [j \in DOMAIN acts |-> <<category, acts[j].activity, acts[j].factor, acts[j].unit>>]

\* search_activity: for cat, acts in EMISSION_FACTORS.items(): for act in
\* acts: if keyword in act.lower(): results.append(...)
SearchActivity(catalog, keyword) ==
    LET kw == Lower(keyword)
        RECURSIVE Results(_)
        Results(i) ==
            IF i > Len(catalog) THEN <<>>
            ELSE Tuples(catalog[i].category,
                        SelectSeq(catalog[i].activities,
                                  LAMBDA e : Contains(kw, Lower(e.activity))))
                 \o Results(i + 1)
    IN  Results(1)

\* the arguments the catalog functions are called with
CatalogCategories == {"Electricity", "Stationary Combustion", "Hydrogen"}
CatalogActivities == {"India Grid", "Diesel", "Electrolysis"}
Amounts == {1500, 1000, 300, 7}
UpdatedCategories == {"Electricity", "Hydrogen"}
UpdatedActivities == {"India Grid", "Electrolysis"}
NewFactors == {90007}
NewUnits == {PyNone, PyStr(""), PyStr("MWh")}
Scopes == {"Scope 1", "Scope 2", "Scope 9"}
Keywords == {"diesel", "DIESEL", "Grid", "combustion", "electro", ""}

UsageDicts ==
    { <<Use("Electricity", "India Grid", 1000), Use("Steam", "Purchased Steam", 300)>>,
      <<Use("Electricity", "India Grid", 1000), Use("Electricity", "Moon Grid", 300),
        Use("Steam", "Purchased Steam", 7)>>,
      <<Use("Hydrogen", "Electrolysis", 7)>>,
      <<Use("Rockets", "Kerosene", 1500), Use("Electricity", "Kerosene", 7)>>,
      <<>> }

\* what a call of a catalog function leaves alone
LedgerUnchanged ==
    UNCHANGED <<emissions_data, columns, file, io, prev_data, prev_columns,
                prev_file, accepted, threads>>

update_emission_factor(category, activity, new_factor, unit) ==
    /\ pc = "ready"
    /\ pc' = "returned"
    /\ call' = [op |-> "update", category |-> category, activity |-> activity,
                new_factor |-> new_factor, unit |-> unit,
                before |-> EMISSION_FACTORS]
    /\ ret' = [raised |-> "none"]
    /\ EMISSION_FACTORS' =
          UpdateEmissionFactor(EMISSION_FACTORS, category, activity, new_factor, unit)
    /\ LedgerUnchanged

calculate_emission(category, activity, amount) ==
    /\ pc = "ready"
    /\ pc' = "returned"
    /\ call' = [op |-> "calculate", category |-> category, activity |-> activity,
                amount |-> amount]
    /\ ret' = CalculateEmission(EMISSION_FACTORS, category, activity, amount)
    /\ UNCHANGED EMISSION_FACTORS
    /\ LedgerUnchanged

total_emission_by_scope(scope, usage_dict) ==
    /\ pc = "ready"
    /\ pc' = "returned"
    /\ call' = [op |-> "total", scope |-> scope, usage_dict |-> usage_dict]
    /\ ret' = TotalEmissionByScope(EMISSION_FACTORS, scope, usage_dict)
    /\ UNCHANGED EMISSION_FACTORS
    /\ LedgerUnchanged

search_activity(keyword) ==
    /\ pc = "ready"
    /\ pc' = "returned"
    /\ call' = [op |-> "search", keyword |-> keyword]
    /\ ret' = [results |-> SearchActivity(EMISSION_FACTORS, keyword)]
    /\ UNCHANGED EMISSION_FACTORS
    /\ LedgerUnchanged

\* search_activity called once more with the keyword of the search that
\* just returned
search_activity_again ==
    /\ pc = "returned"
    /\ call.op = "search"
    /\ "first" \notin DOMAIN call
    /\ pc' = "returned"
    /\ call' = [op |-> "search", keyword |-> call.keyword, first |-> ret]
    /\ ret' = [results |-> SearchActivity(EMISSION_FACTORS, call.keyword)]
    /\ UNCHANGED EMISSION_FACTORS
    /\ LedgerUnchanged

UpdateCall ==
    \E category \in UpdatedCategories, activity \in UpdatedActivities :
        \E new_factor \in NewFactors, unit \in NewUnits :
            update_emission_factor(category, activity, new_factor, unit)

CalculateCall ==
    \E category \in CatalogCategories, activity \in CatalogActivities :
        \E amount \in Amounts :
            calculate_emission(category, activity, amount)

TotalCall ==
    \E scope \in Scopes, usage_dict \in UsageDicts :
        total_emission_by_scope(scope, usage_dict)

SearchCall == \E keyword \in Keywords : search_activity(keyword)

---------------------------------------------------------------------------
(* Two threads calling add_emission_entry / import_csv on one DataHandler. *)
(* The class takes no lock, so a thread can be switched out between the    *)
(* statements of a call: between reading self.emissions_data for pd.concat *)
(* and assigning the result, between the assignment and the copy that      *)
(* save_emissions_data takes, and between the copy and the write.          *)

Threads == {"t1", "t2"}

\* a thread outside any call
IdleThread ==
    [at |-> "idle", new |-> <<>>, cols |-> {}, frame |-> <<>>, fcols |-> {},
     dump |-> <<>>]

\* the rows a call is about to append, with their columns: new_entry of an
\* add_emission_entry that passed its checks, df of an import_csv that
\* passed its own
ThreadAdds ==
    { [new |-> <<NewEntry(a)>>, cols |-> DEFAULT_COLUMNS] :
        a \in {b \in AddArgs : ~AddRaises(b)} }

ThreadImports ==
    { [new |-> ImportedRows(csv), cols |-> ImportedColumns(csv)] :
        csv \in {c \in CsvFrames : ~ImportRejected(c) /\ Len(c.rows) = 1} }

\* the call is entered and its checks pass
ThreadCall(t) ==
    /\ threads[t].at = "idle"
    /\ \E c \in ThreadAdds \cup ThreadImports :
          threads' = [threads EXCEPT ![t] =
                         [IdleThread EXCEPT !.at = "concat", !.new = c.new,
                                            !.cols = c.cols]]
    /\ UNCHANGED <<emissions_data, columns, file, call, ret, io, prev_data,
                   prev_columns, prev_file, accepted, pc, EMISSION_FACTORS>>

\* pd.concat([self.emissions_data, new_entry], ignore_index=True)
ThreadConcat(t) ==
    /\ threads[t].at = "concat"
    /\ threads' = [threads EXCEPT
                     ![t].at = "assign",
                     ![t].frame = Concat(emissions_data, columns,
                                         threads[t].new, threads[t].cols),
                     ![t].fcols = columns \cup threads[t].cols]
    /\ UNCHANGED <<emissions_data, columns, file, call, ret, io, prev_data,
                   prev_columns, prev_file, accepted, pc, EMISSION_FACTORS>>

\* self.emissions_data = <the frame pd.concat returned>
ThreadAssign(t) ==
    /\ threads[t].at = "assign"
    /\ emissions_data' = threads[t].frame
    /\ columns' = threads[t].fcols
    /\ threads' = [threads EXCEPT ![t].at = "copy"]
    /\ UNCHANGED <<file, call, ret, io, prev_data, prev_columns, prev_file,
                   accepted, pc, EMISSION_FACTORS>>

\* save_emissions_data: df = self.emissions_data.copy() and its strftime
ThreadCopy(t) ==
    /\ threads[t].at = "copy"
    /\ threads' = [threads EXCEPT ![t].at = "write",
                                  ![t].dump = ToDictRecords(emissions_data)]
    /\ UNCHANGED <<emissions_data, columns, file, call, ret, io, prev_data,
                   prev_columns, prev_file, accepted, pc, EMISSION_FACTORS>>

\* save_emissions_data: open(EMISSIONS_FILE, 'w') and json.dump of the
\* copy (of two writes the later one is what the file holds)
ThreadWrite(t) ==
    /\ threads[t].at = "write"
    /\ file' = JsonFile(threads[t].dump)
    /\ threads' = [threads EXCEPT ![t].at = "return"]
    /\ UNCHANGED <<emissions_data, columns, call, ret, io, prev_data,
                   prev_columns, prev_file, accepted, pc, EMISSION_FACTORS>>

\* return True / return True, f"Imported ... records."
ThreadReturn(t) ==
    /\ threads[t].at = "return"
    /\ threads' = [threads EXCEPT ![t].at = "returned"]
    /\ accepted' = Append(accepted, [src |-> t, raw |-> threads[t].new])
    /\ UNCHANGED <<emissions_data, columns, file, call, ret, io, prev_data,
                   prev_columns, prev_file, pc, EMISSION_FACTORS>>

---------------------------------------------------------------------------
(* The caller: it takes the returned value, and its next call finds the    *)
(* handler as the last one left it                                         *)

NoCall == [op |-> "none"]
NoReturn == [ok |-> TRUE]

Continue ==
    /\ pc = "returned"
    /\ pc' = "ready"
    /\ call' = NoCall
    /\ ret' = NoReturn
    /\ io' = "none"
    /\ UNCHANGED <<EMISSION_FACTORS, threads>>
    /\ prev_data' = emissions_data
    /\ prev_columns' = columns
    /\ prev_file' = file
    /\ UNCHANGED <<emissions_data, columns, file, accepted>>

---------------------------------------------------------------------------
(* The handler after DataHandler() with no EMISSIONS_FILE on disk *)

Init ==
    /\ emissions_data = <<>>
    /\ columns = DEFAULT_COLUMNS
    /\ file = AbsentFile
    /\ call = NoCall
    /\ ret = NoReturn
    /\ io = "none"
    /\ prev_data = <<>>
    /\ prev_columns = DEFAULT_COLUMNS
    /\ prev_file = AbsentFile
    /\ accepted = <<>>
    /\ pc = "ready"
    /\ EMISSION_FACTORS = ImportedCatalog
    /\ threads = [t \in Threads |-> IdleThread]

\* the ledger under add_emission_entry and import_csv
Next ==
    \/ AddEntry
    \/ ImportCsv
    \/ Continue

Spec == Init /\ [][Next]_vars

\* the ledger under add_emission_entry, import_csv and get_emissions_summary
NextSummary ==
    \/ AddEntry
    \/ ImportCsv
    \/ get_emissions_summary
    \/ Continue

SpecSummary == Init /\ [][NextSummary]_vars

---------------------------------------------------------------------------
(* DataHandler(): load_emissions_data at startup *)

\* EMISSIONS_FILE holding valid JSON that is an object of scalars, such as
\* {"total": 1}, from which pd.DataFrame cannot build a frame
ScalarsFile == [kind |-> "json_scalars"]

\* a record as save_emissions_data writes it, and one whose date no longer parses
StoredRecord ==
    [date |-> "2025-01-15", scope |-> "Scope 2", category |-> "Electricity",
     activity |-> "India Grid", quantity |-> 3, unit |-> "kWh",
     emission_factor |-> 2, emissions_kgCO2e |-> 6, notes |-> ""]

BadDateRecord == [StoredRecord EXCEPT !.date = "not-a-date"]

\* what the file can hold when the program starts for the first time
StartupFiles ==
    { AbsentFile, CorruptFile, ScalarsFile, JsonFile(<<>>),
      JsonFile(<<StoredRecord>>), JsonFile(<<BadDateRecord>>) }

\* the columns of pd.DataFrame(data) for a list of records
LoadedColumns(records) == UNION {DOMAIN records[i] : i \in DOMAIN records}

\* pd.to_datetime(self.emissions_data['date']) on the loaded frame
LoadedRows(records) ==
    [i \in DOMAIN records |->
        [c \in LoadedColumns(records) |->
            IF c \notin DOMAIN records[i] THEN NaN
            ELSE IF c = "date" THEN ToDatetime(records[i][c])
            ELSE records[i][c]]]

\* a date cell of the loaded frame that pd.to_datetime cannot parse
\* (NaN, the stored form of NaT, parses to NaT)
LoadedDateRaises(records) ==
    \E i \in DOMAIN records :
        /\ "date" \in DOMAIN records[i]
        /\ records[i].date # NaN
        /\ ~DateOk(records[i].date)

\* load_emissions_data leaves through an exception that its except clause,
\* (json.JSONDecodeError, FileNotFoundError), does not name: the ValueError
\* of pd.DataFrame(data) or of pd.to_datetime
LoadRaises(f) ==
    CASE f.kind = "absent" -> FALSE
      [] f.kind = "corrupt" -> FALSE
      [] f.kind = "json_scalars" -> TRUE
      [] f.kind = "json" -> LoadedDateRaises(f.records)

\* self.emissions_data after load_emissions_data returned
LoadedFrame(f) ==
    IF f.kind = "json"
    THEN [rows |-> LoadedRows(f.records), cols |-> LoadedColumns(f.records)]
    ELSE [rows |-> <<>>, cols |-> DEFAULT_COLUMNS]

\* DataHandler.__init__
DataHandlerInit ==
    /\ pc = "start"
    /\ call' = [op |-> "init"]
    /\ ret' = [raised |-> LoadRaises(file)]
    /\ io' = "none"
    /\ UNCHANGED <<EMISSION_FACTORS, threads>>
    /\ prev_file' = file
    /\ IF LoadRaises(file)
       THEN /\ pc' = "crashed"
            /\ UNCHANGED <<emissions_data, columns, prev_data, prev_columns>>
       ELSE /\ pc' = "ready"
            /\ emissions_data' = LoadedFrame(file).rows
            /\ columns' = LoadedFrame(file).cols
            /\ prev_data' = emissions_data'
            /\ prev_columns' = columns'
    /\ accepted' = <<>>
    /\ UNCHANGED file

\* the process ends and is started again: the file is all that is kept
Restart ==
    /\ pc = "ready"
    /\ pc' = "start"
    /\ call' = NoCall
    /\ ret' = NoReturn
    /\ io' = "none"
    /\ UNCHANGED <<EMISSION_FACTORS, threads>>
    /\ emissions_data' = <<>>
    /\ columns' = DEFAULT_COLUMNS
    /\ prev_data' = <<>>
    /\ prev_columns' = DEFAULT_COLUMNS
    /\ prev_file' = file
    /\ accepted' = <<>>
    /\ UNCHANGED file

\* add_emission_entry with arguments it accepts
AddAccepted ==
    \E a \in {b \in AddArgs : ~AddRaises(b)} :
        \E outcome \in SaveOutcomes :
            /\ Len(emissions_data) < MaxLedger
            /\ add_emission_entry(a, outcome)

\* import_csv of a file it accepts
ImportAccepted ==
    \E csv \in {c \in CsvFrames : ~ImportRejected(c)} :
        \E outcome \in SaveOutcomes :
            /\ Len(emissions_data) + Len(csv.rows) <= MaxLedger
            /\ import_csv(csv, outcome)

InitStartup ==
    /\ emissions_data = <<>>
    /\ columns = DEFAULT_COLUMNS
    /\ file \in StartupFiles
    /\ call = NoCall
    /\ ret = NoReturn
    /\ io = "none"
    /\ prev_data = <<>>
    /\ prev_columns = DEFAULT_COLUMNS
    /\ prev_file = file
    /\ accepted = <<>>
    /\ pc = "start"
    /\ EMISSION_FACTORS = ImportedCatalog
    /\ threads = [t \in Threads |-> IdleThread]

\* the handler started on whatever the file holds, used, and started again
NextStartup ==
    \/ DataHandlerInit
    \/ AddAccepted
    \/ ImportAccepted
    \/ Continue
    \/ Restart

SpecStartup == InitStartup /\ [][NextStartup]_vars

\* the ledger under the calls that change it and the calls that read it
NextQuery ==
    \/ QueryAdd
    \/ QueryImport
    \/ FilterCall
    \/ ExportCall
    \/ get_emissions_summary
    \/ get_emissions_summary_next
    \/ Continue

SpecQuery == Init /\ [][NextQuery]_vars

\* the catalog under its update and the functions that read it
NextCatalog ==
    \/ UpdateCall
    \/ CalculateCall
    \/ TotalCall
    \/ SearchCall
    \/ search_activity_again
    \/ Continue

SpecCatalog == Init /\ [][NextCatalog]_vars

\* one call of each thread on the handler, their statements interleaved
NextThreads ==
    \E t \in Threads :
        \/ ThreadCall(t)
        \/ ThreadConcat(t)
        \/ ThreadAssign(t)
        \/ ThreadCopy(t)
        \/ ThreadWrite(t)
        \/ ThreadReturn(t)

SpecThreads == Init /\ [][NextThreads]_vars

---------------------------------------------------------------------------
(* Properties *)

Returned(op) == pc = "returned" /\ call.op = op
Mutation == pc = "returned" /\ call.op \in {"add", "import"}
WriteFailed == io \in {"open_failed", "write_failed"}

\* the number of rows the returned call handed in
Offered == IF call.op = "add" THEN 1 ELSE Len(call.csv.rows)

\* the rows the returned call appended
NewRows == SubSeq(emissions_data, Len(prev_data) + 1, Len(emissions_data))

\* the ledger, its columns and the file are as the call found them
NothingChanged ==
    /\ emissions_data = prev_data
    /\ columns = prev_columns
    /\ file = prev_file

\* None or the empty string
MissingOrEmpty(v) == v = PyNone \/ v = PyStr("")

\* the add arguments other than quantity are all usable
OtherFieldsValid(a) ==
    /\ Truthy(a.scope)
    /\ Truthy(a.category)
    /\ Truthy(a.activity)
    /\ a.emission_factor.t = "num"
    /\ a.emission_factor.n > 0
    /\ DateOk(a.date)

\* C1: every record of the ledger has emissions_kgCO2e equal to
\* quantity * emission_factor, whatever adds and imports produced it, also
\* when the imported file carried an emissions_kgCO2e column of its own.
C1_EmissionsDerived ==
    \A i \in DOMAIN emissions_data :
        emissions_data[i].emissions_kgCO2e =
            emissions_data[i].quantity * emissions_data[i].emission_factor

\* an import succeeded whose file supplied another emissions_kgCO2e than
\* the one the ledger now holds for that row
C1_Witness ==
    /\ Returned("import")
    /\ ret.ok
    /\ "emissions_kgCO2e" \in call.csv.cols
    /\ \E k \in DOMAIN call.csv.rows :
          NewRows[k].emissions_kgCO2e # call.csv.rows[k].emissions_kgCO2e.n

\* C2: add_emission_entry with a negative quantity and every other field
\* valid returns failure and leaves the ledger as it was.
C2_NegativeQuantityRejected ==
    ( /\ Returned("add")
      /\ call.args.quantity.t = "num"
      /\ call.args.quantity.n < 0
      /\ OtherFieldsValid(call.args) )
    => (~ret.ok /\ emissions_data = prev_data)

\* C3: add_emission_entry with quantity zero, non-empty scope, category and
\* activity and a positive factor returns success and appends one record
\* whose emissions_kgCO2e is 0.
C3_ZeroQuantityAccepted ==
    ( /\ Returned("add")
      /\ call.args.quantity = PyNum(0)
      /\ OtherFieldsValid(call.args) )
    => ( /\ ret.ok
         /\ Len(emissions_data) = Len(prev_data) + 1
         /\ emissions_data[Len(emissions_data)].emissions_kgCO2e = 0 )

\* C4: add_emission_entry with scope, category, activity, quantity or
\* emission_factor missing (None) or empty ("") returns failure, writes
\* nothing, and leaves the ledger and the file as they were.
C4_MissingFieldRejected ==
    ( /\ Returned("add")
      /\ \/ MissingOrEmpty(call.args.scope)
         \/ MissingOrEmpty(call.args.category)
         \/ MissingOrEmpty(call.args.activity)
         \/ MissingOrEmpty(call.args.quantity)
         \/ MissingOrEmpty(call.args.emission_factor) )
    => (~ret.ok /\ io = "none" /\ NothingChanged)

\* an add with only the activity empty was made on a ledger that holds a
\* record and a file that holds its copy
C4_Witness ==
    /\ Returned("add")
    /\ call.args.activity = PyStr("")
    /\ Truthy(call.args.scope)
    /\ Truthy(call.args.category)
    /\ Truthy(call.args.quantity)
    /\ Truthy(call.args.emission_factor)
    /\ DateOk(call.args.date)
    /\ prev_data # <<>>
    /\ prev_file.kind = "json"

\* C5: import_csv of a file lacking required columns returns (False, msg)
\* with msg naming every missing column, accepts no row, writes nothing and
\* leaves the ledger and the file as they were.
C5_MissingColumnsRejected ==
    ( /\ Returned("import")
      /\ Range(REQUIRED) \ call.csv.cols # {} )
    => ( /\ ~ret.ok
         /\ ret.msg.kind = "missing_columns"
         /\ Range(ret.msg.names) = Range(REQUIRED) \ call.csv.cols
         /\ io = "none"
         /\ NothingChanged )

\* a file lacking two required columns was imported into a ledger that
\* holds a record
C5_Witness ==
    /\ Returned("import")
    /\ Cardinality(Range(REQUIRED) \ call.csv.cols) >= 2
    /\ prev_data # <<>>
    /\ prev_file.kind = "json"

\* C6: import_csv of a batch with a malformed date in some row returns
\* (False, msg), appends no row of the batch, and leaves the ledger and the
\* file as they were.
C6_MalformedDateRejectsBatch ==
    ( /\ Returned("import")
      /\ Range(REQUIRED) \subseteq call.csv.cols
      /\ \E k \in DOMAIN call.csv.rows : ~DateOk(call.csv.rows[k].date) )
    => (~ret.ok /\ io = "none" /\ NothingChanged)

\* a batch whose first row is well formed and whose second row has a
\* malformed date was imported
C6_Witness ==
    /\ Returned("import")
    /\ Range(REQUIRED) \subseteq call.csv.cols
    /\ Len(call.csv.rows) = 2
    /\ DateOk(call.csv.rows[1].date)
    /\ FloatOk(call.csv.rows[1].quantity)
    /\ ~DateOk(call.csv.rows[2].date)

\* the ledger row that an accepted add argument list or file row becomes
MatchesAccepted(row, acc) ==
    LET raw == acc.raw
    IN  /\ row.date = TimestampOf[raw.date]
        /\ row.unit = raw.unit
        /\ IF acc.src = "add"
           THEN /\ row.scope = raw.scope.s
                /\ row.category = raw.category.s
                /\ row.activity = raw.activity.s
                /\ row.notes = raw.notes
           ELSE /\ row.scope = raw.scope
                /\ row.category = raw.category
                /\ row.activity = raw.activity
                /\ row.notes = IF "notes" \in DOMAIN raw THEN raw.notes ELSE ""
        /\ row.quantity = raw.quantity.n
        /\ row.emission_factor = raw.emission_factor.n

\* C7: the ledger is the concatenation, in call order, of the records the
\* successful adds and imports accepted (file rows in row order, notes ""
\* when the file has no notes column), and a successful call leaves every
\* earlier record in its place.
C7_AppendOnlyInsertionOrder ==
    /\ Len(emissions_data) = Len(accepted)
    /\ \A i \in DOMAIN emissions_data : MatchesAccepted(emissions_data[i], accepted[i])
    /\ (Mutation /\ ret.ok) =>
          /\ Len(emissions_data) = Len(prev_data) + Offered
          /\ \A i \in DOMAIN prev_data :
                \A c \in prev_columns : emissions_data[i][c] = prev_data[i][c]

\* a file without a notes column was imported into a ledger that holds a
\* record of another call
C7_Witness ==
    /\ Returned("import")
    /\ ret.ok
    /\ "notes" \notin call.csv.cols
    /\ prev_data # <<>>
    /\ emissions_data[1] # emissions_data[Len(emissions_data)]
    /\ emissions_data[Len(emissions_data)].notes = ""

\* the file's records are the rows, dates as YYYY-MM-DD strings
SameRecords(records, rows) ==
    /\ Len(records) = Len(rows)
    /\ \A i \in DOMAIN rows :
          /\ DOMAIN records[i] = DOMAIN rows[i]
          /\ \A c \in DOMAIN rows[i] :
                IF c = "date"
                THEN /\ DateOk(records[i][c])
                     /\ TimestampOf[records[i][c]] = rows[i][c]
                ELSE records[i][c] = rows[i][c]

\* C8: when an add or import returns success and its write did not fail,
\* the file holds the ledger's records in the ledger's order; a rejected
\* add or import writes nothing.
C8_PersistedAfterMutation ==
    Mutation =>
        /\ (ret.ok /\ io = "ok") =>
              (file.kind = "json" /\ SameRecords(file.records, emissions_data))
        /\ ~ret.ok => (io = "none" /\ file = prev_file)

\* a successful import was written to a file that held the copy of an
\* earlier record, and the file now holds both
C8_Witness ==
    /\ Returned("import")
    /\ ret.ok
    /\ io = "ok"
    /\ prev_file.kind = "json"
    /\ Len(file.records) = 2
    /\ file.records # prev_file.records

\* C9: when the write fails during an add or import, the call is reported
\* as failed.
C9_WriteFailureReported ==
    (Mutation /\ WriteFailed) => ~ret.ok

\* C10: when the write fails during an add or import, the accepted records
\* stay in the ledger behind the records it held, and a write that succeeds
\* puts every record of the ledger in the file, also those whose own write
\* failed.
C10_NoRollbackOnWriteFailure ==
    /\ (Mutation /\ WriteFailed) =>
          /\ Len(emissions_data) = Len(prev_data) + Offered
          /\ \A i \in DOMAIN prev_data :
                \A c \in prev_columns : emissions_data[i][c] = prev_data[i][c]
          /\ \A k \in 1..Offered :
                MatchesAccepted(NewRows[k], accepted[Len(prev_data) + k])
    /\ (Mutation /\ io = "ok") =>
          /\ file.kind = "json"
          /\ Len(file.records) = Len(emissions_data)
          /\ \A i \in DOMAIN prev_data :
                \A c \in prev_columns \ {"date"} : file.records[i][c] = prev_data[i][c]

\* a write succeeded after the write of an earlier record had failed, so
\* the file gained the earlier record with the new one
C10_Witness ==
    /\ Mutation
    /\ io = "ok"
    /\ prev_data # <<>>
    /\ prev_file.kind # "json"
    /\ file.kind = "json"
    /\ Len(file.records) = Len(prev_data) + Offered

\* the durable copy the handler is started on is absent, is no valid JSON,
\* is JSON of another shape than a list of records, or has a date that
\* does not parse
BadDurableCopy(f) ==
    \/ f.kind \in {"absent", "corrupt", "json_scalars"}
    \/ /\ f.kind = "json"
       /\ \E i \in DOMAIN f.records :
             f.records[i].date # NaN /\ ~DateOk(f.records[i].date)

\* C11: started on an absent, invalid or wrongly shaped durable copy (or
\* one with an unparsable date), DataHandler() completes without raising
\* and holds an empty ledger with the default columns.
C11_StartupNeverFails ==
    (call.op = "init" /\ BadDurableCopy(prev_file))
    => ( /\ ~ret.raised
         /\ pc = "ready"
         /\ emissions_data = <<>>
         /\ columns = DEFAULT_COLUMNS )

\* C11, the part the code keeps: an absent file and a file that is no valid
\* JSON give an empty ledger with the default columns.
C11_AbsentOrInvalidJson ==
    (call.op = "init" /\ prev_file.kind \in {"absent", "corrupt"})
    => ( /\ ~ret.raised
         /\ pc = "ready"
         /\ emissions_data = <<>>
         /\ columns = DEFAULT_COLUMNS )

\* a filter argument counts as supplied when it is neither None nor empty
Supplied(v) == Truthy(v)

\* the record satisfies every supplied filter of the call
SatisfiesFilters(r, c) ==
    /\ Supplied(c.start_date) => (r.date # NaT /\ r.date >= TimestampOf[c.start_date.s])
    /\ Supplied(c.end_date) => (r.date # NaT /\ r.date <= TimestampOf[c.end_date.s])
    /\ Supplied(c.scope) => r.scope = c.scope.s
    /\ Supplied(c.category) => r.category = c.category.s

\* C12: get_filtered_data returns exactly the ledger records that satisfy
\* every supplied filter, the date bounds inclusive; a start_date alone or
\* an end_date alone still restricts the result.
C12_EverySuppliedFilterApplied ==
    call.op = "filter"
    => ret.data = SelectSeq(prev_data, LAMBDA r : SatisfiesFilters(r, call))

\* C12, the part the code keeps: with both dates or neither supplied the
\* result is exactly the records satisfying the supplied filters.
C12_BothDatesOrNeither ==
    (call.op = "filter" /\ (Supplied(call.start_date) <=> Supplied(call.end_date)))
    => ret.data = SelectSeq(prev_data, LAMBDA r : SatisfiesFilters(r, call))

RECURSIVE IsSubSeq(_, _)
IsSubSeq(s, t) ==
    IF s = <<>> THEN TRUE
    ELSE IF t = <<>> THEN FALSE
    ELSE IF s[1] = t[1] /\ IsSubSeq(Tail(s), Tail(t)) THEN TRUE
    ELSE IsSubSeq(s, Tail(t))

\* C13: the result of get_filtered_data is a sub-sequence of the ledger in
\* the ledger's order, no longer than the ledger, each of its records of
\* the requested scope; the ledger is as it was after get_filtered_data
\* and after export_csv.
C13_FilterIsPureProjection ==
    /\ call.op = "filter"
       => ( /\ IsSubSeq(ret.data, prev_data)
            /\ Len(ret.data) <= Len(prev_data)
            /\ Supplied(call.scope)
               => \A i \in DOMAIN ret.data : ret.data[i].scope = call.scope.s
            /\ emissions_data = prev_data
            /\ columns = prev_columns
            /\ file = prev_file )
    /\ call.op = "export"
       => ( /\ emissions_data = prev_data
            /\ columns = prev_columns
            /\ file = prev_file )

\* a filter by scope that kept the second of two ledger records and left
\* the first out, the ledger being as before
C13_Witness ==
    /\ call.op = "filter"
    /\ Supplied(call.scope)
    /\ Len(prev_data) = 2
    /\ ret.data = <<prev_data[2]>>
    /\ prev_data[1].scope # call.scope.s
    /\ emissions_data = prev_data

RECURSIVE SumValues(_, _)
SumValues(f, keys) ==
    IF keys = {} THEN 0
    ELSE LET k == CHOOSE x \in keys : TRUE
         IN  f[k] + SumValues(f, keys \ {k})

\* C14: for a non-empty ledger the values of scope_breakdown sum to
\* total_emissions, and so do the values of category_breakdown.
C14_BreakdownsSumToTotal ==
    (call.op = "summary" /\ prev_data # <<>>)
    => ( /\ SumValues(ret.scope_breakdown, DOMAIN ret.scope_breakdown)
              = ret.total_emissions
         /\ SumValues(ret.category_breakdown, DOMAIN ret.category_breakdown)
              = ret.total_emissions )

\* C14, the part the code keeps: total_emissions is the sum over all
\* records, and the breakdowns sum to it when no scope or category cell is
\* empty.
C14_SumToTotalWhenNoCellEmpty ==
    (call.op = "summary" /\ prev_data # <<>>)
    => ( /\ ret.total_emissions = SumEmissions(prev_data)
         /\ (\A i \in DOMAIN prev_data : prev_data[i].scope # NaN)
            => SumValues(ret.scope_breakdown, DOMAIN ret.scope_breakdown)
                 = ret.total_emissions
         /\ (\A i \in DOMAIN prev_data : prev_data[i].category # NaN)
            => SumValues(ret.category_breakdown, DOMAIN ret.category_breakdown)
                 = ret.total_emissions )

\* the breakdown with one entry per value of the column, the empty cell's
\* value included
GroupedByEveryValue(rows, key) ==
    [k \in {rows[i][key] : i \in DOMAIN rows} |->
        SumEmissions(SelectSeq(rows, LAMBDA r : r[key] = k))]

\* C15: scope_breakdown and category_breakdown have exactly one entry per
\* distinct value of the column in the ledger, each the sum of the
\* emissions of the records with that value; no record is left out for a
\* missing or unknown scope or category.
C15_OneEntryPerValue ==
    (call.op = "summary" /\ prev_data # <<>>)
    => ( /\ ret.scope_breakdown = GroupedByEveryValue(prev_data, "scope")
         /\ ret.category_breakdown = GroupedByEveryValue(prev_data, "category") )

EmptySummary ==
    [total_emissions |-> 0, scope_breakdown |-> <<>>,
     category_breakdown |-> <<>>, time_series |-> <<>>]

\* C16: on an empty ledger get_emissions_summary returns total 0 with
\* empty scope, category and time-series breakdowns, raises nothing and
\* leaves the ledger empty, whether the ledger is fresh or still empty
\* after a failed add or a rejected import.
C16_EmptyLedgerSummary ==
    (call.op = "summary" /\ prev_data = <<>>)
    => ( /\ ret = EmptySummary
         /\ emissions_data = <<>>
         /\ columns = prev_columns )

\* a summary asked for right after an add that returned False on the
\* empty ledger
C16_Witness ==
    /\ call.op = "summary"
    /\ "after" \in DOMAIN call
    /\ call.after.op = "add"
    /\ ~call.first.ok
    /\ prev_data = <<>>
    /\ ret = EmptySummary

\* C17: two consecutive get_emissions_summary calls with no add or import
\* between them return the same total, scope breakdown, category breakdown
\* and time series.
C17_SummaryIdempotent ==
    (call.op = "summary" /\ "after" \in DOMAIN call /\ call.after.op = "summary")
    => ret = call.first

\* a second summary of a ledger holding a record with no scope and a
\* record of Scope 1, the first call having added the month column
C17_Witness ==
    /\ call.op = "summary"
    /\ "after" \in DOMAIN call
    /\ call.after.op = "summary"
    /\ Len(prev_data) = 2
    /\ "month" \in prev_columns
    /\ \E i \in DOMAIN prev_data : prev_data[i].scope = NaN
    /\ \E i \in DOMAIN prev_data : prev_data[i].scope = "Scope 1"
    /\ ret.total_emissions = 18
    /\ ret = call.first

\* every (category, activity, factor, unit) of the catalog, in catalog order
RECURSIVE CatalogEntries(_)
CatalogEntries(catalog) ==
    IF catalog = <<>> THEN <<>>
    ELSE Tuples(Head(catalog).category, Head(catalog).activities)
         \o CatalogEntries(Tail(catalog))

\* the factors stored for the pair (none, or one: a dict has a key once)
StoredFactors(category, activity) ==
    LET entries == CatalogEntries(EMISSION_FACTORS)
    IN  { entries[k][3] :
            k \in { n \in DOMAIN entries :
                      entries[n][1] = category /\ entries[n][2] = activity } }

\* v, in units of 0.0001, is the product p, in units of 0.00001, rounded to
\* four decimals
RoundedTo4(v, p) == (10 * v - p) \in (0 - 5)..5

\* C18: calculate_emission returns factor * amount rounded to four
\* decimals for a pair of the catalog, with the factor stored at the time
\* of the call, and raises instead of returning when the pair is absent;
\* ("Electricity", "India Grid", 1500) gives 1230.0 with the factor 0.82.
C18_CalculateEmission ==
    call.op = "calculate"
    => /\ IF StoredFactors(call.category, call.activity) = {}
          THEN ret.raised = "ValueError" /\ "value" \notin DOMAIN ret
          ELSE /\ ret.raised = "none"
               /\ \A f \in StoredFactors(call.category, call.activity) :
                     RoundedTo4(ret.value, f * call.amount)
       /\ ( /\ call.category = "Electricity"
            /\ call.activity = "India Grid"
            /\ call.amount = 1500
            /\ StoredFactors("Electricity", "India Grid") = {82000} )
          => ret.value = 12300000

\* calculate_emission("Electricity", "India Grid", 1500) after
\* update_emission_factor changed the factor to 0.90007: 1350.105
C18_Witness ==
    /\ call.op = "calculate"
    /\ call.category = "Electricity"
    /\ call.activity = "India Grid"
    /\ call.amount = 1500
    /\ StoredFactors("Electricity", "India Grid") = {90007}
    /\ ret.raised = "none"
    /\ ret.value = 13501050

\* the emission of the k-th item of the usage dict, 0 when its pair is not
\* in the catalog
Resolved(usage, k) ==
    IF StoredFactors(usage[k].category, usage[k].activity) = {} THEN 0
    ELSE CalculateEmission(EMISSION_FACTORS, usage[k].category,
                           usage[k].activity, usage[k].amount).value

RECURSIVE SumResolved(_, _)
SumResolved(usage, ks) ==
    IF ks = {} THEN 0
    ELSE LET k == CHOOSE x \in ks : TRUE
         IN  Resolved(usage, k) + SumResolved(usage, ks \ {k})

\* C19: total_emission_by_scope raises nothing on an unknown pair and
\* returns the sum of calculate_emission over the pairs that are in the
\* catalog; {"Electricity": {"India Grid": 1000}, "Steam": {"Purchased
\* Steam": 300}} gives 877.0 with the factors 0.82 and 0.19, and a dict of
\* unknown pairs only gives 0.
C19_TotalSkipsUnknownPairs ==
    call.op = "total"
    => /\ ret.raised = "none"
       /\ ret.value = SumResolved(call.usage_dict, DOMAIN call.usage_dict)
       /\ ( /\ call.usage_dict = <<Use("Electricity", "India Grid", 1000),
                                   Use("Steam", "Purchased Steam", 300)>>
            /\ StoredFactors("Electricity", "India Grid") = {82000}
            /\ StoredFactors("Steam", "Purchased Steam") = {19000} )
          => ret.value = 8770000
       /\ (\A k \in DOMAIN call.usage_dict :
              StoredFactors(call.usage_dict[k].category,
                            call.usage_dict[k].activity) = {})
          => ret.value = 0

\* a total over India Grid, an unknown activity of Electricity and
\* Purchased Steam: the unknown pair adds nothing, 820.0 + 1.33
C19_Witness ==
    /\ call.op = "total"
    /\ Len(call.usage_dict) = 3
    /\ StoredFactors("Electricity", "Moon Grid") = {}
    /\ StoredFactors("Electricity", "India Grid") = {82000}
    /\ ret.raised = "none"
    /\ ret.value = 8213300

\* the result is the catalog entries, in catalog order, whose activity
\* name has the keyword in it when both are written in lower case, and a
\* repeated search returned what the first returned
SearchMatchesActivities ==
    /\ ret.results =
          SelectSeq(CatalogEntries(EMISSION_FACTORS),
                    LAMBDA t : Contains(Lower(call.keyword), Lower(t[2])))
    /\ "first" \in DOMAIN call => ret = call.first

\* C20 as stated: search_activity returns exactly the entries whose
\* activity contains the keyword case-insensitively, in catalog order, the
\* same on a repeated call, and for "diesel" the two "Diesel" entries.
C20_SearchDieselTwoEntries ==
    call.op = "search"
    => /\ SearchMatchesActivities
       /\ (call.keyword = "diesel" /\ EMISSION_FACTORS = ImportedCatalog)
          => ret.results =
                << <<"Stationary Combustion", "Diesel", 268787, "liter">>,
                   <<"Mobile Combustion", "Diesel", 270553, "liter">> >>

\* C20, amended: search_activity returns exactly the entries whose
\* activity contains the keyword case-insensitively, never matching on a
\* category name, in catalog order, the same on a repeated call; for
\* "diesel" these are three entries, the two "Diesel" ones and
\* (Employee Commuting, Car (Diesel), 0.16844, km).
C20_SearchActivity ==
    call.op = "search"
    => /\ SearchMatchesActivities
       /\ (call.keyword = "diesel" /\ EMISSION_FACTORS = ImportedCatalog)
          => ret.results =
                << <<"Stationary Combustion", "Diesel", 268787, "liter">>,
                   <<"Mobile Combustion", "Diesel", 270553, "liter">>,
                   <<"Employee Commuting", "Car (Diesel)", 16844, "km">> >>
       /\ call.keyword = "combustion" => ret.results = <<>>

\* the search for "diesel" repeated on the catalog as imported, three
\* entries both times
C20_Witness ==
    /\ call.op = "search"
    /\ call.keyword = "diesel"
    /\ "first" \in DOMAIN call
    /\ EMISSION_FACTORS = ImportedCatalog
    /\ Len(ret.results) = 3
    /\ ret.results[3][2] = "Car (Diesel)"
    /\ ret = call.first

\* the entries of the catalog other than the one of the pair, in order
OtherEntries(catalog, category, activity) ==
    SelectSeq(CatalogEntries(catalog),
              LAMBDA t : ~(t[1] = category /\ t[2] = activity))

\* the (category, activity) pairs of the catalog, in order
PairsOf(catalog) ==
    [k \in DOMAIN CatalogEntries(catalog) |->
        <<CatalogEntries(catalog)[k][1], CatalogEntries(catalog)[k][2]>>]

\* the unit the entry of the pair had in the catalog, as a set
UnitsOf(catalog, category, activity) ==
    LET entries == CatalogEntries(catalog)
    IN  { entries[k][4] :
            k \in { n \in DOMAIN entries :
                      entries[n][1] = category /\ entries[n][2] = activity } }

\* C21: after update_emission_factor the pair has the new factor; its unit
\* is the unit supplied, or the prior unit of an entry that existed, or
\* "unit" for a new entry; every other entry is as it was, and an entry
\* that existed keeps its place in the catalog order.
C21_UpdateEmissionFactor ==
    call.op = "update"
    => LET prior == UnitsOf(call.before, call.category, call.activity)
       IN  /\ StoredFactors(call.category, call.activity) = {call.new_factor}
           /\ UnitsOf(EMISSION_FACTORS, call.category, call.activity) =
                 IF Truthy(call.unit) THEN {call.unit.s}
                 ELSE IF prior # {} THEN prior
                 ELSE {"unit"}
           /\ OtherEntries(EMISSION_FACTORS, call.category, call.activity)
                 = OtherEntries(call.before, call.category, call.activity)
           /\ prior # {} => PairsOf(EMISSION_FACTORS) = PairsOf(call.before)

\* update_emission_factor("Electricity", "India Grid", 0.90007) with no
\* unit: the entry is still the first of Electricity, in kWh
C21_Witness ==
    /\ call.op = "update"
    /\ call.category = "Electricity"
    /\ call.activity = "India Grid"
    /\ ~Truthy(call.unit)
    /\ call.before = ImportedCatalog
    /\ CatalogEntries(EMISSION_FACTORS)[13] =
          <<"Electricity", "India Grid", 90007, "kWh">>

\* the scopes whose list in SCOPE_CATEGORIES has the category
ScopesOf(category) ==
    { sc \in DOMAIN SCOPE_CATEGORIES : category \in Range(SCOPE_CATEGORIES[sc]) }

\* C22: in every catalog reachable by update_emission_factor calls, each
\* category with at least one entry is listed under exactly one scope of
\* SCOPE_CATEGORIES.
C22_TaxonomyConsistent ==
    \A i \in DOMAIN EMISSION_FACTORS :
        EMISSION_FACTORS[i].activities # <<>>
        => Cardinality(ScopesOf(EMISSION_FACTORS[i].category)) = 1

\* C22, the part the code keeps: the categories of the catalog as imported
\* are each under exactly one scope, whatever updates their entries had.
C22_ImportedCategoriesUnderOneScope ==
    \A i \in DOMAIN EMISSION_FACTORS :
        i <= Len(ImportedCatalog)
        => /\ EMISSION_FACTORS[i].category = ImportedCatalog[i].category
           /\ Cardinality(ScopesOf(EMISSION_FACTORS[i].category)) = 1

\* the emission of the k-th item of the usage dict when its category is
\* one of the scope's, else 0
ResolvedInScope(scope, usage, k) ==
    IF usage[k].category \in Range(get_categories(scope))
    THEN Resolved(usage, k)
    ELSE 0

RECURSIVE SumInScope(_, _, _)
SumInScope(scope, usage, ks) ==
    IF ks = {} THEN 0
    ELSE LET k == CHOOSE x \in ks : TRUE
         IN  ResolvedInScope(scope, usage, k) + SumInScope(scope, usage, ks \ {k})

\* C25: total_emission_by_scope(scope, usage) is the total of the pairs
\* whose category SCOPE_CATEGORIES lists under the scope; pairs of a
\* category of another scope or of none add nothing, and an unknown scope
\* gives 0.
C25_TotalOfTheScope ==
    call.op = "total"
    => /\ ret.raised = "none"
       /\ ret.value = SumInScope(call.scope, call.usage_dict, DOMAIN call.usage_dict)
       /\ call.scope \notin DOMAIN SCOPE_CATEGORIES => ret.value = 0

\* C25, the part the code keeps: for a usage dict whose categories are all
\* under the scope, the result is the scope's total.
C25_TotalWhenAllInScope ==
    ( /\ call.op = "total"
      /\ \A k \in DOMAIN call.usage_dict :
            call.usage_dict[k].category \in Range(get_categories(call.scope)) )
    => ret.value = SumInScope(call.scope, call.usage_dict, DOMAIN call.usage_dict)

\* C23: get_emissions_summary leaves the ledger with the same records and
\* the same fields, and no record of the file has a field other than the
\* record's own (no month label).
C23_SummaryReadOnly ==
    /\ call.op = "summary"
       => (emissions_data = prev_data /\ columns = prev_columns)
    /\ file.kind = "json"
       => \A i \in DOMAIN file.records :
             DOMAIN file.records[i] \subseteq DEFAULT_COLUMNS

\* C23, the part the code keeps: the call changes no cell of a field the
\* records had, and neither adds nor removes a record.
C23_OnlyMonthAssigned ==
    call.op = "summary"
    => /\ Len(emissions_data) = Len(prev_data)
       /\ columns \ {"month"} = prev_columns \ {"month"}
       /\ \A i \in DOMAIN prev_data :
             \A c \in DOMAIN prev_data[i] \ {"month"} :
                 emissions_data[i][c] = prev_data[i][c]
       /\ file = prev_file

\* the ledger and the file after the call of thread a, then the call of
\* thread b, each run to its end on the fresh handler
SequentialLedger(a, b) ==
    Concat(Concat(<<>>, DEFAULT_COLUMNS, threads[a].new, threads[a].cols),
           DEFAULT_COLUMNS \cup threads[a].cols,
           threads[b].new, threads[b].cols)

\* C24: once two overlapping add_emission_entry / import_csv calls have
\* both returned success, the ledger is what one of the two sequential
\* orders gives, and the file holds the records of the ledger.
C24_MutationsSerialized ==
    (\A t \in Threads : threads[t].at = "returned")
    => /\ \E a \in Threads : \E b \in Threads \ {a} :
             emissions_data = SequentialLedger(a, b)
       /\ file = JsonFile(ToDictRecords(emissions_data))

\* C24, the part the code keeps: when both calls have returned, the
\* ledger holds the record of the call that assigned last, and the file
\* holds what the ledger held at some assignment.
C24_LastAssignmentKept ==
    (\A t \in Threads : threads[t].at = "returned")
    => /\ \E t \in Threads : emissions_data = threads[t].frame
       /\ \E t \in Threads : file = JsonFile(ToDictRecords(threads[t].frame))

====
